---- MODULE Spec2Model ----
(***************************************************************************)
(* Tactical move selector of the Gomoku agents (8x8 board, five in a row). *)
(* The board scanner, the move ranker and the priority cascade of          *)
(* VishalGomokuLLMAgent6, VishalGomokuLLMAgent5 and VishalGomokuLLMAgent2, *)
(* and the no-legal-move path of VishalGomokuLLMAgent7.                     *)
(*                                                                         *)
(* A coordinate is a pair <<row, col>>, 0-indexed.  A board is a function  *)
(* row -> col -> piece with pieces "X", "O" and "." (empty).  Distances to *)
(* the centre (3.5, 3.5) are kept doubled so that they stay integers.      *)
(***************************************************************************)
EXTENDS Integers, Sequences, FiniteSets

\* ------------------------------------------------------------------ board
N == 8
Rows == 0 .. (N - 1)
Cells == Rows \X Rows
Dirs == << <<0, 1>>, <<1, 0>>, <<1, 1>>, <<1, -1>> >>
DirIdx == 1 .. 4
None == << >>

InBoard(r, c) == r >= 0 /\ r < N /\ c >= 0 /\ c < N

Other(p) == IF p = "X" THEN "O" ELSE "X"

\* board[r][c] = player
Place(b, r, c, p) == [b EXCEPT ![r][c] = p]

\* the legal moves the game hands over: the empty cells, row by row
RECURSIVE EmptyFrom(_, _)
EmptyFrom(b, k) ==
  IF k >= N * N THEN << >>
  ELSE LET r == k \div N
           c == k % N
       IN  IF b[r][c] = "." THEN << <<r, c>> >> \o EmptyFrom(b, k + 1)
           ELSE EmptyFrom(b, k + 1)

LegalMoves(b) == EmptyFrom(b, 0)

SeqToSet(s) == {s[i] : i \in 1 .. Len(s)}

MoveCount(b) == Cardinality({p \in Cells : b[p[1]][p[2]] # "."})

\* ------------------------------------------------- run counting, agent 6
\* the while loops of _five_in_row_if_place and _score_move: number of
\* consecutive stones of player met from (r, c) on, stepping by (dr, dc)
RECURSIVE CountDir(_, _, _, _, _, _)
CountDir(b, r, c, dr, dc, player) ==
  IF InBoard(r, c) /\ b[r][c] = player
  THEN 1 + CountDir(b, r + dr, c + dc, dr, dc, player)
  ELSE 0

\* cnt of one direction after the stone is on (r, c)
RunThrough(b, r, c, d, player) ==
  1 + CountDir(b, r + Dirs[d][1], c + Dirs[d][2], Dirs[d][1], Dirs[d][2], player)
    + CountDir(b, r - Dirs[d][1], c - Dirs[d][2], 0 - Dirs[d][1], 0 - Dirs[d][2], player)

\* slip: a run of four already counts as a win
FiveInRowIfPlace_Four(b, r, c, player) ==
  IF b[r][c] # "." THEN FALSE
  ELSE LET placed == Place(b, r, c, player)
       IN  \E d \in DirIdx : RunThrough(placed, r, c, d, player) >= 4

FiveInRowIfPlace(b, r, c, player) ==
  IF b[r][c] # "." THEN FALSE
  ELSE LET placed == Place(b, r, c, player)
       IN  \E d \in DirIdx : RunThrough(placed, r, c, d, player) >= 5

\* slip: the reply is tried with the mover's stone instead of the opponent's
MoveGivesOppImmediateWin_Me(b, move, me, opp) ==
  LET r == move[1]
      c == move[2]
  IN  IF b[r][c] # "." THEN TRUE
      ELSE LET placed == Place(b, r, c, me)
           IN  \E rr \in Rows : \E cc \in Rows :
                 placed[rr][cc] = "." /\ FiveInRowIfPlace(placed, rr, cc, me)

\* slip: the replies are tried on the board without the mover's stone
MoveGivesOppImmediateWin_NoPlace(b, move, me, opp) ==
  LET r == move[1]
      c == move[2]
  IN  IF b[r][c] # "." THEN TRUE
      ELSE \E rr \in Rows : \E cc \in Rows :
             b[rr][cc] = "." /\ FiveInRowIfPlace(b, rr, cc, opp)

MoveGivesOppImmediateWin(b, move, me, opp) ==
  LET r == move[1]
      c == move[2]
  IN  IF b[r][c] # "." THEN TRUE
      ELSE LET placed == Place(b, r, c, me)
           IN  \E rr \in Rows : \E cc \in Rows :
                 placed[rr][cc] = "." /\ FiveInRowIfPlace(placed, rr, cc, opp)

Max(a, b) == IF a >= b THEN a ELSE b

\* slip: the fork bonus is left out
ScoreMove_NoForks(b, r, c, me) ==
  IF b[r][c] # "." THEN 0 - 1
  ELSE LET placed == Place(b, r, c, me)
           cnt == [d \in DirIdx |-> RunThrough(placed, r, c, d, me)]
           best == Max(Max(cnt[1], cnt[2]), Max(cnt[3], cnt[4]))
       IN  best * 10

ScoreMove(b, r, c, me) ==
  IF b[r][c] # "." THEN 0 - 1
  ELSE LET placed == Place(b, r, c, me)
           cnt == [d \in DirIdx |-> RunThrough(placed, r, c, d, me)]
           best == Max(Max(cnt[1], cnt[2]), Max(cnt[3], cnt[4]))
           forks == Cardinality({d \in DirIdx : cnt[d] >= 3})
       IN  best * 10 + forks

Abs(x) == IF x >= 0 THEN x ELSE 0 - x

\* twice abs(pos[0] - 3.5) + abs(pos[1] - 3.5)
CenterDist(pos) == Abs(2 * pos[1] - 7) + Abs(2 * pos[2] - 7)

\* --------------------------------------------------- line scanner, agent 6
\* walk back from (r, c) against the direction while the previous cell is on
\* the board: the first cell of the line
RECURSIVE LineStart(_, _, _, _)
LineStart(r, c, dr, dc) ==
  IF InBoard(r - dr, c - dc) THEN LineStart(r - dr, c - dc, dr, dc)
  ELSE <<r, c>>

\* collect the cells forward until the edge
RECURSIVE LineFrom(_, _, _, _)
LineFrom(r, c, dr, dc) ==
  IF InBoard(r, c) THEN << <<r, c>> >> \o LineFrom(r + dr, c + dc, dr, dc)
  ELSE << >>

\* the line through every origin cell along every direction: the two loops
\* read the coordinates only, never the board
LineOf ==
  [r \in Rows |-> [c \in Rows |-> [d \in DirIdx |->
     LET s == LineStart(r, c, Dirs[d][1], Dirs[d][2])
     IN  LineFrom(s[1], s[2], Dirs[d][1], Dirs[d][2])]]]

\* slip: no walk back to the edge, the line begins at the origin
Line_FromOrigin(start_r, start_c, dr, dc) ==
  LineFrom(start_r, start_c, dr, dc)

Line(start_r, start_c, dr, dc) ==
  LineOf[start_r][start_c][CHOOSE d \in DirIdx : Dirs[d] = <<dr, dc>>]

\* window = line[i:i+w] (i counted from 1 here), pieces = its stones
Window(line, i, w) == [j \in 1 .. w |-> line[i + j - 1]]
Pieces(b, window) == [j \in DOMAIN window |-> b[window[j][1]][window[j][2]]]
Count(pieces, v) == Cardinality({j \in DOMAIN pieces : pieces[j] = v})
\* pieces.index('.')
IndexOf(pieces, v) ==
  CHOOSE j \in DOMAIN pieces :
    pieces[j] = v /\ \A k \in DOMAIN pieces : pieces[k] = v => j <= k

\* the cells one length-5 window contributes
Window5Threats(b, window, player, target_count) ==
  LET pieces == Pieces(b, window)
      pc == Count(pieces, player)
      ec == Count(pieces, ".")
      oc == Count(pieces, Other(player))
  IN  IF target_count = 4 /\ pc = 4 /\ ec = 1 /\ oc = 0
      THEN {window[IndexOf(pieces, ".")]}
      ELSE IF target_count = 3 /\ pc = 3 /\ ec = 2 /\ oc = 0
      THEN IF pieces[1] = "." /\ pieces[2] = player /\ pieces[3] = player
              /\ pieces[4] = player /\ pieces[5] = "."
           THEN {window[1], window[5]}
           ELSE {window[j] : j \in {k \in 1 .. 5 : pieces[k] = "."}}
      ELSE IF target_count = 3 /\ pc = 3 /\ ec = 1 /\ oc = 1
      THEN {window[IndexOf(pieces, ".")]}
      ELSE {}

\* slip: both ends of the window of four are reported, empty or not
Window4Threats_BothEnds(b, window, player) ==
  LET pieces == Pieces(b, window)
      pc == Count(pieces, player)
      ec == Count(pieces, ".")
      oc == Count(pieces, Other(player))
  IN  IF pc = 3 /\ ec = 1 /\ oc = 0
      THEN {window[1], window[4]}
      ELSE {}

\* the cells one length-4 window contributes (target_count 3 only)
Window4Threats(b, window, player) ==
  LET pieces == Pieces(b, window)
      pc == Count(pieces, player)
      ec == Count(pieces, ".")
      oc == Count(pieces, Other(player))
  IN  IF pc = 3 /\ ec = 1 /\ oc = 0
      THEN (IF pieces[1] = "." THEN {window[1]} ELSE {})
           \cup (IF pieces[4] = "." THEN {window[4]} ELSE {})
      ELSE {}

\* slip: range(0, len(line) - 5), the last window of five is not looked at
CheckLineForThreat_ShortRange(b, start_r, start_c, dr, dc, player, target_count) ==
  LET line == Line(start_r, start_c, dr, dc)
      n == Len(line)
      five == UNION {Window5Threats(b, Window(line, i, 5), player, target_count) :
                       i \in 1 .. Max(0, n - 5)}
      four == IF target_count = 3 /\ n >= 4
              THEN UNION {Window4Threats(b, Window(line, i, 4), player) :
                            i \in 1 .. (n - 3)}
              ELSE {}
  IN  five \cup four

CheckLineForThreat(b, start_r, start_c, dr, dc, player, target_count) ==
  LET line == Line(start_r, start_c, dr, dc)
      n == Len(line)
      five == UNION {Window5Threats(b, Window(line, i, 5), player, target_count) :
                       i \in 1 .. Max(0, n - 4)}
      four == IF target_count = 3 /\ n >= 4
              THEN UNION {Window4Threats(b, Window(line, i, 4), player) :
                            i \in 1 .. (n - 3)}
              ELSE {}
  IN  five \cup four

\* slip: the anti-diagonal (1, -1) is missing from the directions scanned
FindAllThreats_NoAntiDiag(b, player, target_count) ==
  UNION {CheckLineForThreat(b, r, c, Dirs[d][1], Dirs[d][2], player, target_count) :
           r \in Rows, c \in Rows, d \in 1 .. 3}

\* the set `threats`; list(threats) hands it on in an order the language
\* leaves open
FindAllThreats(b, player, target_count) ==
  UNION {CheckLineForThreat(b, r, c, Dirs[d][1], Dirs[d][2], player, target_count) :
           r \in Rows, c \in Rows, d \in DirIdx}

\* ------------------------------------------------- ranking, agent 6
\* the sort key (-score, centre distance) of min(...)
\* slip: the tie-break on the centre distance is left out of the key
Key_NoDist(b, p, me) == << 0 - ScoreMove(b, p[1], p[2], me), 0 >>

Key(b, p, me) == << 0 - ScoreMove(b, p[1], p[2], me), CenterDist(p) >>

\* slip: the keys are compared on the score alone
KeyLess_ScoreOnly(k1, k2) == k1[1] < k2[1]

KeyLess(k1, k2) == k1[1] < k2[1] \/ (k1[1] = k2[1] /\ k1[2] < k2[2])

\* the moves of S no other move of S beats
ArgMin(S, b, me) ==
  LET key == [m \in S |-> Key(b, m, me)]
  IN  {m \in S : \A q \in S : ~KeyLess(key[q], key[m])}

\* position of a move in a list
Pos(seq, m) == CHOOSE i \in 1 .. Len(seq) : seq[i] = m /\ \A j \in 1 .. (i - 1) : seq[j] # m

\* slip: the pool goes through a set before min(), so any tied move can win
MinMoves_Unordered(S, legal, b, me, listed) == ArgMin(S, b, me)

\* min(moves, key=...) over the moves S: Python's min returns the first
\* minimal element met.  listed: the moves arrive in the order of `legal`
\* (a list comprehension over it) and the first minimal one wins; otherwise
\* they arrive as list(set) in an order the language leaves open, so any
\* minimal element can be the one returned.  The result is the set of moves
\* the call can return.
MinMoves(S, legal, b, me, listed) ==
  LET best == ArgMin(S, b, me)
  IN  IF listed
      THEN {m \in best : \A q \in best : Pos(legal, m) <= Pos(legal, q)}
      ELSE best

\* slip: `moves = safe` without the test `if safe:`, so a tier whose
\* candidates are all unsafe gives None
PickBest_NoFallback(candidates, legal, b, me, opp, avoid_blunders, listed) ==
  LET moves == {m \in candidates : m \in SeqToSet(legal)}
      safe == IF avoid_blunders
              THEN {m \in moves : ~MoveGivesOppImmediateWin(b, m, me, opp)}
              ELSE {}
      used == IF avoid_blunders THEN safe ELSE moves
  IN  [moves |-> moves, safe |-> safe,
       ret |-> IF used = {} THEN {} ELSE MinMoves(used, legal, b, me, listed)]

\* _pick_best: [moves |-> legality-filtered candidates, safe |-> those that
\* pass the blunder filter, ret |-> the moves the call can return ({} = None)]
PickBest(candidates, legal, b, me, opp, avoid_blunders, listed) ==
  LET moves == {m \in candidates : m \in SeqToSet(legal)}
      safe == IF avoid_blunders
              THEN {m \in moves : ~MoveGivesOppImmediateWin(b, m, me, opp)}
              ELSE {}
      used == IF avoid_blunders /\ safe # {} THEN safe ELSE moves
  IN  [moves |-> moves, safe |-> safe,
       ret |-> IF moves = {} THEN {} ELSE MinMoves(used, legal, b, me, listed)]

\* a Python tuple of two ints is always true, so `if best:` fails for None only
Truthy(pick) == pick.ret # {}

\* move_count < 10
EarlyMoves == 10
\* _center_dist(m) <= 3, doubled
RingDist == 6

\* slip: the cascade ends with `return None` after the centre tier, as the
\* older agents do
GetStrategicMove_NoTerminal(b, me, opp, legal) ==
  LET L == SeqToSet(legal)
      win_moves == {m \in L : FiveInRowIfPlace(b, m[1], m[2], me)}
      t1 == PickBest(win_moves, legal, b, me, opp, FALSE, TRUE)
      t2 == PickBest(FindAllThreats(b, opp, 4), legal, b, me, opp, TRUE, FALSE)
      t3 == PickBest(FindAllThreats(b, opp, 3), legal, b, me, opp, TRUE, FALSE)
      t4 == PickBest(FindAllThreats(b, me, 3), legal, b, me, opp, TRUE, FALSE)
      ring == {m \in L : CenterDist(m) <= RingDist}
      ring_safe == {m \in ring : ~MoveGivesOppImmediateWin(b, m, me, opp)}
      pool5 == IF ring_safe # {} THEN ring_safe ELSE ring
      R(t, p, e) == [tier |-> t, moves |-> p.moves, safe |-> p.safe,
                     ret |-> p.ret, err |-> e]
  IN  IF Truthy(t1) THEN R(1, t1, "")
      ELSE IF Truthy(t2) THEN R(2, t2, "")
      ELSE IF Truthy(t3) THEN R(3, t3, "")
      ELSE IF Truthy(t4) THEN R(4, t4, "")
      ELSE IF MoveCount(b) < EarlyMoves /\ pool5 # {}
      THEN R(5, [moves |-> ring, safe |-> ring_safe,
                 ret |-> MinMoves(pool5, legal, b, me, TRUE)], "")
      ELSE R(6, [moves |-> {}, safe |-> {}, ret |-> {}], "")

\* slip: the winning moves go through the blunder filter like the other tiers
GetStrategicMove_WinFiltered(b, me, opp, legal) ==
  LET L == SeqToSet(legal)
      win_moves == {m \in L : FiveInRowIfPlace(b, m[1], m[2], me)}
      t1 == PickBest(win_moves, legal, b, me, opp, TRUE, TRUE)
      t2 == PickBest(FindAllThreats(b, opp, 4), legal, b, me, opp, TRUE, FALSE)
      t3 == PickBest(FindAllThreats(b, opp, 3), legal, b, me, opp, TRUE, FALSE)
      t4 == PickBest(FindAllThreats(b, me, 3), legal, b, me, opp, TRUE, FALSE)
      ring == {m \in L : CenterDist(m) <= RingDist}
      ring_safe == {m \in ring : ~MoveGivesOppImmediateWin(b, m, me, opp)}
      pool5 == IF ring_safe # {} THEN ring_safe ELSE ring
      safe_all == {m \in L : ~MoveGivesOppImmediateWin(b, m, me, opp)}
      pool6 == IF safe_all # {} THEN safe_all ELSE L
      R(t, p, e) == [tier |-> t, moves |-> p.moves, safe |-> p.safe,
                     ret |-> p.ret, err |-> e]
  IN  IF Truthy(t1) THEN R(1, t1, "")
      ELSE IF Truthy(t2) THEN R(2, t2, "")
      ELSE IF Truthy(t3) THEN R(3, t3, "")
      ELSE IF Truthy(t4) THEN R(4, t4, "")
      ELSE IF MoveCount(b) < EarlyMoves /\ pool5 # {}
      THEN R(5, [moves |-> ring, safe |-> ring_safe,
                 ret |-> MinMoves(pool5, legal, b, me, TRUE)], "")
      ELSE IF pool6 # {}
      THEN R(6, [moves |-> L, safe |-> safe_all,
                 ret |-> MinMoves(pool6, legal, b, me, TRUE)], "")
      \* min() of an empty sequence
      ELSE R(6, [moves |-> {}, safe |-> {}, ret |-> {}], "ValueError")

\* slip: the early-game centre tier is skipped
GetStrategicMove_NoCentreTier(b, me, opp, legal) ==
  LET L == SeqToSet(legal)
      win_moves == {m \in L : FiveInRowIfPlace(b, m[1], m[2], me)}
      t1 == PickBest(win_moves, legal, b, me, opp, FALSE, TRUE)
      t2 == PickBest(FindAllThreats(b, opp, 4), legal, b, me, opp, TRUE, FALSE)
      t3 == PickBest(FindAllThreats(b, opp, 3), legal, b, me, opp, TRUE, FALSE)
      t4 == PickBest(FindAllThreats(b, me, 3), legal, b, me, opp, TRUE, FALSE)
      safe_all == {m \in L : ~MoveGivesOppImmediateWin(b, m, me, opp)}
      pool6 == IF safe_all # {} THEN safe_all ELSE L
      R(t, p, e) == [tier |-> t, moves |-> p.moves, safe |-> p.safe,
                     ret |-> p.ret, err |-> e]
  IN  IF Truthy(t1) THEN R(1, t1, "")
      ELSE IF Truthy(t2) THEN R(2, t2, "")
      ELSE IF Truthy(t3) THEN R(3, t3, "")
      ELSE IF Truthy(t4) THEN R(4, t4, "")
      ELSE IF pool6 # {}
      THEN R(6, [moves |-> L, safe |-> safe_all,
                 ret |-> MinMoves(pool6, legal, b, me, TRUE)], "")
      ELSE R(6, [moves |-> {}, safe |-> {}, ret |-> {}], "ValueError")

\* _get_strategic_move of agent 6: [tier |-> the return statement taken,
\* moves / safe |-> the tier's candidates before and after the blunder
\* filter, ret |-> the moves the call can return, err |-> the exception]
GetStrategicMove(b, me, opp, legal) ==
  LET L == SeqToSet(legal)
      win_moves == {m \in L : FiveInRowIfPlace(b, m[1], m[2], me)}
      t1 == PickBest(win_moves, legal, b, me, opp, FALSE, TRUE)
      t2 == PickBest(FindAllThreats(b, opp, 4), legal, b, me, opp, TRUE, FALSE)
      t3 == PickBest(FindAllThreats(b, opp, 3), legal, b, me, opp, TRUE, FALSE)
      t4 == PickBest(FindAllThreats(b, me, 3), legal, b, me, opp, TRUE, FALSE)
      ring == {m \in L : CenterDist(m) <= RingDist}
      ring_safe == {m \in ring : ~MoveGivesOppImmediateWin(b, m, me, opp)}
      pool5 == IF ring_safe # {} THEN ring_safe ELSE ring
      safe_all == {m \in L : ~MoveGivesOppImmediateWin(b, m, me, opp)}
      pool6 == IF safe_all # {} THEN safe_all ELSE L
      R(t, p, e) == [tier |-> t, moves |-> p.moves, safe |-> p.safe,
                     ret |-> p.ret, err |-> e]
  IN  IF Truthy(t1) THEN R(1, t1, "")
      ELSE IF Truthy(t2) THEN R(2, t2, "")
      ELSE IF Truthy(t3) THEN R(3, t3, "")
      ELSE IF Truthy(t4) THEN R(4, t4, "")
      ELSE IF MoveCount(b) < EarlyMoves /\ pool5 # {}
      THEN R(5, [moves |-> ring, safe |-> ring_safe,
                 ret |-> MinMoves(pool5, legal, b, me, TRUE)], "")
      ELSE IF pool6 # {}
      THEN R(6, [moves |-> L, safe |-> safe_all,
                 ret |-> MinMoves(pool6, legal, b, me, TRUE)], "")
      \* min() of an empty sequence
      ELSE R(6, [moves |-> {}, safe |-> {}, ret |-> {}], "ValueError")

\* ------------------------------------------ the board after a call, agent 6
\* The helpers write the tried stone into the caller's board and take it off
\* again; these operators give the board a call leaves behind.

\* slip: the tried stone is left on the board
Undo_Keep(b, r, c) == b

\* board[r][c] = '.'
Undo(b, r, c) == [b EXCEPT ![r][c] = "."]

FiveInRowIfPlaceBoard(b, r, c, player) ==
  IF b[r][c] # "." THEN b
  ELSE Undo(Place(b, r, c, player), r, c)

ScoreMoveBoard(b, r, c, me) ==
  IF b[r][c] # "." THEN b
  ELSE Undo(Place(b, r, c, me), r, c)

\* the two loops over the replies, cells lo .. hi - 1 (cell k = 8 * rr + cc):
\* s.board is the board so far, s.hit says that a reply that makes five was
\* met, which ends the loops.  The range is halved to keep the evaluation
\* shallow; the cells are visited in the order of the loops.
RECURSIVE RepliesBoard(_, _, _, _)
RepliesBoard(s, opp, lo, hi) ==
  IF s.hit \/ lo >= hi THEN s
  ELSE IF hi - lo = 1
  THEN LET rr == lo \div N
           cc == lo % N
       IN  IF s.board[rr][cc] # "." THEN s
           ELSE [board |-> FiveInRowIfPlaceBoard(s.board, rr, cc, opp),
                 hit |-> FiveInRowIfPlace(s.board, rr, cc, opp)]
  ELSE LET mid == (lo + hi) \div 2
       IN  RepliesBoard(RepliesBoard(s, opp, lo, mid), opp, mid, hi)

MoveGivesOppImmediateWinBoard(b, move, me, opp) ==
  LET r == move[1]
      c == move[2]
  IN  IF b[r][c] # "." THEN b
      ELSE Undo(RepliesBoard([board |-> Place(b, r, c, me), hit |-> FALSE],
                             opp, 0, N * N).board, r, c)

\* the members of S in the order of the legal-move list
InOrder(S, legal) == SelectSeq(legal, LAMBDA m : m \in S)

\* A loop over a list of moves is a recursion on s = [board |-> the board so
\* far, i |-> the index of the next move].

\* the comprehension [m for m in ms if not _move_gives_opp_immediate_win(..)]
RECURSIVE BlunderFilterLoop(_, _, _, _)
BlunderFilterLoop(s, ms, me, opp) ==
  IF s.i > Len(ms) THEN s.board
  ELSE BlunderFilterLoop(
         [board |-> MoveGivesOppImmediateWinBoard(s.board, ms[s.i], me, opp),
          i |-> s.i + 1], ms, me, opp)

BlunderFilterBoard(b, ms, me, opp) ==
  BlunderFilterLoop([board |-> b, i |-> 1], ms, me, opp)

\* the key function of min(), called once for every move
RECURSIVE ScoreAllLoop(_, _, _)
ScoreAllLoop(s, ms, me) ==
  IF s.i > Len(ms) THEN s.board
  ELSE ScoreAllLoop(
         [board |-> ScoreMoveBoard(s.board, ms[s.i][1], ms[s.i][2], me),
          i |-> s.i + 1], ms, me)

ScoreAllBoard(b, ms, me) == ScoreAllLoop([board |-> b, i |-> 1], ms, me)

\* the comprehension [m for m in legal if _five_in_row_if_place(..)]
RECURSIVE WinScanLoop(_, _, _)
WinScanLoop(s, ms, me) ==
  IF s.i > Len(ms) THEN s.board
  ELSE WinScanLoop(
         [board |-> FiveInRowIfPlaceBoard(s.board, ms[s.i][1], ms[s.i][2], me),
          i |-> s.i + 1], ms, me)

WinScanBoard(b, ms, me) == WinScanLoop([board |-> b, i |-> 1], ms, me)

\* _pick_best with its result `pick` at hand: the blunder filter runs over
\* the legal candidates, min() scores the ones left
PickBestCalls(pick, legal, b, me, opp, avoid_blunders) ==
  IF pick.moves = {} THEN b
  ELSE ScoreAllBoard(
         IF avoid_blunders
         THEN BlunderFilterBoard(b, InOrder(pick.moves, legal), me, opp)
         ELSE b,
         InOrder(IF avoid_blunders /\ pick.safe # {} THEN pick.safe
                 ELSE pick.moves, legal),
         me)

PickBestBoard(candidates, legal, b, me, opp, avoid_blunders) ==
  PickBestCalls(PickBest(candidates, legal, b, me, opp, avoid_blunders, FALSE),
                legal, b, me, opp, avoid_blunders)

\* the calls one tier of _get_strategic_move makes on board b; g is what the
\* cascade returns.  Tiers 5 and 6 run the blunder filter over their pool
\* and, if they return, min() scores the moves left.
TierBoard(k, g, b, me, opp, legal) ==
  IF k = 1
  THEN PickBestBoard({m \in SeqToSet(legal) : FiveInRowIfPlace(b, m[1], m[2], me)},
                     legal, WinScanBoard(b, legal, me), me, opp, FALSE)
  ELSE IF k = 2 THEN PickBestBoard(FindAllThreats(b, opp, 4), legal, b, me, opp, TRUE)
  ELSE IF k = 3 THEN PickBestBoard(FindAllThreats(b, opp, 3), legal, b, me, opp, TRUE)
  ELSE IF k = 4 THEN PickBestBoard(FindAllThreats(b, me, 3), legal, b, me, opp, TRUE)
  ELSE IF k = 5
  THEN IF MoveCount(b) < EarlyMoves
       THEN PickBestCalls(
              [moves |-> {m \in SeqToSet(legal) : CenterDist(m) <= RingDist},
               safe |-> IF g.tier = 5 THEN g.safe ELSE {}],
              legal, b, me, opp, TRUE)
       ELSE b
  ELSE PickBestCalls([moves |-> g.moves, safe |-> g.safe], legal, b, me, opp, TRUE)

\* the tiers in turn, from tier k to the one that returns
RECURSIVE CascadeBoard(_, _, _, _, _, _)
CascadeBoard(k, g, b, me, opp, legal) ==
  IF k > g.tier THEN b
  ELSE CascadeBoard(k + 1, g, TierBoard(k, g, b, me, opp, legal), me, opp, legal)

\* the calls of _get_strategic_move up to the return statement it takes
GetStrategicMoveBoard(b, me, opp, legal) ==
  CascadeBoard(1, GetStrategicMove(b, me, opp, legal), b, me, opp, legal)

\* ---------------------------------------------------------------- agent 5
\* the length-5 window pass of agent 5's scanner
Window5Threats5(b, window, player, target_count) ==
  LET pieces == Pieces(b, window)
      player_count == Count(pieces, player)
      empty_count == Count(pieces, ".")
      opp_count == Count(pieces, Other(player))
  IN  IF target_count = 4 /\ player_count = 4 /\ empty_count = 1 /\ opp_count = 0
      THEN {window[IndexOf(pieces, ".")]}
      ELSE IF target_count = 3 /\ player_count = 3 /\ empty_count = 2 /\ opp_count = 0
      THEN IF pieces[1] = "." /\ pieces[2] = player /\ pieces[3] = player
              /\ pieces[4] = player /\ pieces[5] = "."
           THEN {window[1], window[5]}
           ELSE {window[j] : j \in {k \in 1 .. 5 : pieces[k] = "."}}
      ELSE IF target_count = 3 /\ player_count = 3 /\ empty_count = 1 /\ opp_count = 1
      THEN {window[IndexOf(pieces, ".")]}
      ELSE {}

\* the length-4 window pass of agent 5's scanner
Window4Threats5(b, window4, player) ==
  LET pieces4 == Pieces(b, window4)
  IN  IF Count(pieces4, player) = 3 /\ Count(pieces4, ".") = 1
         /\ Count(pieces4, Other(player)) = 0
      THEN IF pieces4[1] = "." /\ pieces4[2] = player /\ pieces4[3] = player
              /\ pieces4[4] = player
           THEN {window4[1]}
           ELSE IF pieces4[1] = player /\ pieces4[2] = player /\ pieces4[3] = player
                   /\ pieces4[4] = "."
           THEN {window4[4]}
           ELSE {}
      ELSE {}

CheckLineForThreat5(b, start_r, start_c, dr, dc, player, target_count) ==
  LET line == Line(start_r, start_c, dr, dc)
      n == Len(line)
      five == UNION {Window5Threats5(b, Window(line, i, 5), player, target_count) :
                       i \in 1 .. Max(0, n - 4)}
      four == IF target_count = 3 /\ n >= 4
              THEN UNION {Window4Threats5(b, Window(line, i, 4), player) :
                            i \in 1 .. (n - 3)}
              ELSE {}
  IN  five \cup four

FindAllThreats5(b, player, target_count) ==
  UNION {CheckLineForThreat5(b, r, c, Dirs[d][1], Dirs[d][2], player, target_count) :
           r \in Rows, c \in Rows, d \in DirIdx}

ScoreMove5(b, r, c, me) ==
  IF b[r][c] # "." THEN 0 - 1
  ELSE LET placed == Place(b, r, c, me)
           cnt == [d \in DirIdx |-> RunThrough(placed, r, c, d, me)]
           best == Max(Max(cnt[1], cnt[2]), Max(cnt[3], cnt[4]))
           fork_bonus == Cardinality({d \in DirIdx : cnt[d] >= 3})
       IN  best * 10 + fork_bonus

\* _pick_best of agent 5: no blunder filter; the candidates always come from
\* list(set), so min() may return any candidate with the least key
PickBest5(candidates, legal_moves, b, me) ==
  LET legal == {m \in candidates : m \in SeqToSet(legal_moves)}
      key == [m \in legal |-> << 0 - ScoreMove5(b, m[1], m[2], me), CenterDist(m) >>]
  IN  [moves |-> legal, safe |-> {},
       ret |-> {m \in legal : \A q \in legal : ~KeyLess(key[q], key[m])}]

\* _get_strategic_move of agent 5; tier 0 with ret = {} is `return None`
GetStrategicMove5(b, me, opp, legal_moves) ==
  LET t1 == PickBest5(FindAllThreats5(b, me, 4), legal_moves, b, me)
      t2 == PickBest5(FindAllThreats5(b, opp, 4), legal_moves, b, me)
      t3 == PickBest5(FindAllThreats5(b, opp, 3), legal_moves, b, me)
      t4 == PickBest5(FindAllThreats5(b, me, 3), legal_moves, b, me)
      t5 == PickBest5(FindAllThreats5(b, me, 2), legal_moves, b, me)
      R(t, p) == [tier |-> t, moves |-> p.moves, safe |-> p.safe,
                  ret |-> p.ret, err |-> ""]
  IN  IF Truthy(t1) THEN R(1, t1)
      ELSE IF Truthy(t2) THEN R(2, t2)
      ELSE IF Truthy(t3) THEN R(3, t3)
      ELSE IF Truthy(t4) THEN R(4, t4)
      ELSE IF Truthy(t5) THEN R(5, t5)
      ELSE R(0, [moves |-> {}, safe |-> {}, ret |-> {}])

\* ---------------------------------------------------------------- agent 2
\* the scanner of agent 2: one pass of length-5 windows, every empty cell of
\* a three-window, no length-4 pass
Window5Threats2(b, window, player, target_count) ==
  LET pieces == Pieces(b, window)
      player_count == Count(pieces, player)
      empty_count == Count(pieces, ".")
      opp_count == Count(pieces, Other(player))
  IN  IF target_count = 4 /\ player_count = 4 /\ empty_count = 1 /\ opp_count = 0
      THEN {window[IndexOf(pieces, ".")]}
      ELSE IF target_count = 3 /\ player_count = 3 /\ empty_count = 2 /\ opp_count = 0
      THEN {window[j] : j \in {k \in 1 .. 5 : pieces[k] = "."}}
      ELSE IF target_count = 3 /\ player_count = 3 /\ empty_count = 1 /\ opp_count = 1
      THEN {window[IndexOf(pieces, ".")]}
      ELSE {}

CheckLineForThreat2(b, start_r, start_c, dr, dc, player, target_count) ==
  LET line == Line(start_r, start_c, dr, dc)
  IN  UNION {Window5Threats2(b, Window(line, i, 5), player, target_count) :
               i \in 1 .. Max(0, Len(line) - 4)}

FindAllThreats2(b, player, target_count) ==
  UNION {CheckLineForThreat2(b, r, c, Dirs[d][1], Dirs[d][2], player, target_count) :
           r \in Rows, c \in Rows, d \in DirIdx}

\* _pick_best of agent 2: the legal candidate closest to the centre
PickBest2(candidates, legal_moves) ==
  LET legal == {m \in candidates : m \in SeqToSet(legal_moves)}
  IN  [moves |-> legal, safe |-> {},
       ret |-> {m \in legal : \A q \in legal : CenterDist(m) <= CenterDist(q)}]

\* _get_strategic_move of agent 2: tier 3 scans the mover's threes, tier 4
\* the opponent's
GetStrategicMove2(b, me, opp, legal_moves) ==
  LET t1 == PickBest2(FindAllThreats2(b, me, 4), legal_moves)
      t2 == PickBest2(FindAllThreats2(b, opp, 4), legal_moves)
      t3 == PickBest2(FindAllThreats2(b, me, 3), legal_moves)
      t4 == PickBest2(FindAllThreats2(b, opp, 3), legal_moves)
      t5 == PickBest2(FindAllThreats2(b, me, 2), legal_moves)
      R(t, p) == [tier |-> t, moves |-> p.moves, safe |-> p.safe,
                  ret |-> p.ret, err |-> ""]
  IN  IF Truthy(t1) THEN R(1, t1)
      ELSE IF Truthy(t2) THEN R(2, t2)
      ELSE IF Truthy(t3) THEN R(3, t3)
      ELSE IF Truthy(t4) THEN R(4, t4)
      ELSE IF Truthy(t5) THEN R(5, t5)
      ELSE R(0, [moves |-> {}, safe |-> {}, ret |-> {}])

\* ---------------------------------------------------------------- agent 1
\* _check_immediate_win: every legal move in turn is written into the board
\* rebuilt from the game state, the four directions are counted and the cell
\* is set back to '.'; s = [board |-> the board so far, i |-> the index of
\* the next move].  The result is [ret |-> the move or None, board |-> the
\* board left behind].
RECURSIVE CheckImmediateWinLoop(_, _, _)
CheckImmediateWinLoop(s, legal_moves, player) ==
  IF s.i > Len(legal_moves) THEN [ret |-> None, board |-> s.board]
  ELSE LET row == legal_moves[s.i][1]
           col == legal_moves[s.i][2]
           placed == Place(s.board, row, col, player)
       IN  IF \E d \in DirIdx : RunThrough(placed, row, col, d, player) >= 5
           THEN [ret |-> <<row, col>>, board |-> Undo(placed, row, col)]
           ELSE CheckImmediateWinLoop(
                  [board |-> Undo(placed, row, col), i |-> s.i + 1],
                  legal_moves, player)

CheckImmediateWin(b, legal_moves, player) ==
  CheckImmediateWinLoop([board |-> b, i |-> 1], legal_moves, player)

\* slip: the first legal move is taken, the list is not sorted
GetFallbackMove_Unsorted(legal_moves) ==
  IF legal_moves = << >> THEN [ret |-> None, err |-> "IndexError"]
  ELSE [ret |-> legal_moves[1], err |-> ""]

\* _get_fallback_move: sorted() by the Manhattan distance to (3.5, 3.5) keeps
\* the order of the list among equals; [0] of an empty list raises
GetFallbackMove(legal_moves) ==
  LET L == SeqToSet(legal_moves)
  IN  IF L = {} THEN [ret |-> None, err |-> "IndexError"]
      ELSE [ret |-> CHOOSE m \in L : \A q \in L :
                      \/ CenterDist(m) < CenterDist(q)
                      \/ /\ CenterDist(m) = CenterDist(q)
                         /\ Pos(legal_moves, m) <= Pos(legal_moves, q),
            err |-> ""]

\* ---------------------------------------------------------------- agent 7
\* _fallback_centerish: sort by (|r-4| + |c-4|, (r, c)) and take the first;
\* (0, 0) when there is no legal move
FallbackKeyLess(p, q) ==
  LET dp == Abs(p[1] - 4) + Abs(p[2] - 4)
      dq == Abs(q[1] - 4) + Abs(q[2] - 4)
  IN  dp < dq \/ (dp = dq /\ (p[1] < q[1] \/ (p[1] = q[1] /\ p[2] < q[2])))

FallbackCenterish(legal_moves) ==
  IF legal_moves = << >> THEN <<0, 0>>
  ELSE CHOOSE m \in SeqToSet(legal_moves) :
         \A q \in SeqToSet(legal_moves) : q = m \/ FallbackKeyLess(m, q)

\* ------------------------------------------------------------ snapshots
\* longest run of stones a starting snapshot lays down for one player
MaxRun == 4

\* where the runs of the starting snapshots begin: <<row, col, direction>>
StartsX == {<<3, 1, 1>>, <<3, 1, 2>>, <<3, 1, 3>>, <<3, 6, 4>>}
StartsO == {<<2, 2, 1>>, <<2, 2, 2>>, <<2, 2, 3>>, <<2, 5, 4>>}

RunCells(s, len) ==
  {<<s[1] + i * Dirs[s[3]][1], s[2] + i * Dirs[s[3]][2]>> : i \in 0 .. (len - 1)}

Runs(starts) ==
  {{}} \cup {RunCells(s, len) : s \in starts, len \in 3 .. MaxRun}

OnBoard(S) == \A p \in S : InBoard(p[1], p[2])

\* a run of three, a gap, and one more stone on the same line
GapRuns(starts) ==
  {RunCells(s, 3) \cup {<<s[1] + 4 * Dirs[s[3]][1], s[2] + 4 * Dirs[s[3]][2]>>} :
     s \in starts}

\* ten scattered stones that make no three for either player: a snapshot of
\* a game past its opening
BallastX == {<<0, 0>>, <<0, 3>>, <<0, 6>>, <<1, 7>>, <<5, 7>>}
BallastO == {<<0, 1>>, <<0, 4>>, <<0, 7>>, <<4, 7>>, <<7, 7>>}

BoardOf(xs, os) ==
  [r \in Rows |-> [c \in Rows |->
     IF <<r, c>> \in xs THEN "X" ELSE IF <<r, c>> \in os THEN "O" ELSE "."]]

\* a four of X and a four of O that one cell, (3,0), completes for both
CrossedFours == BoardOf(RunCells(<<3, 1, 1>>, 4), RunCells(<<4, 0, 2>>, 4))

\* an opening with a pair of X in the corner and nothing else
CornerPair == BoardOf({<<0, 0>>, <<0, 1>>}, {})

\* three of X on the anti-diagonal of four cells that ends in (3,0)
ShortDiagonal == BoardOf({<<0, 3>>, <<1, 2>>, <<2, 1>>}, {})

\* the starting snapshots: a run for X and a run for O, or the scattered
\* stones with a run of one player at most
StartBoards ==
  {BoardOf(xs, os) :
     xs \in {x \in Runs(StartsX) : OnBoard(x)},
     os \in {o \in Runs(StartsO) : OnBoard(o)}}
  \cup {BoardOf(BallastX \cup xs, BallastO) : xs \in {x \in Runs(StartsX) : OnBoard(x)}}
  \cup {BoardOf(BallastX, BallastO \cup os) : os \in {o \in Runs(StartsO) : OnBoard(o)}}
  \cup {BoardOf(xs, {}) : xs \in {x \in GapRuns(StartsX) : OnBoard(x)}}
  \cup {CrossedFours, CornerPair, ShortDiagonal}

\* a board without an empty cell and without five in a row
FullBoard ==
  [r \in Rows |-> [c \in Rows |-> IF (c + 2 * r) % 4 < 2 THEN "X" ELSE "O"]]

\* a list back to front
Reverse(seq) == [i \in 1 .. Len(seq) |-> seq[Len(seq) + 1 - i]]

\* the legal-move lists a snapshot is handed over with: the empty cells row
\* by row, and for the openings also the same cells back to front
LegalLists(b) ==
  {LegalMoves(b)} \cup (IF MoveCount(b) < 3 THEN {Reverse(LegalMoves(b))} ELSE {})

\* moves the game goes on for after the starting snapshot
MaxPlies == 1

\* the target counts handed to the scanner
TargetCounts == {2, 3, 4}

VARIABLES
  board,    \* the snapshot the decision is taken on
  me,       \* the mover
  legal,    \* the legal-move list of the snapshot
  pc,       \* "ready", "strategic" (_get_strategic_move has returned or
            \* raised), "returned" (get_move is over), "scanned", "over"
  op,       \* the operation that ran last
  tier,     \* the return statement _get_strategic_move took
  moves,    \* the legality-filtered candidates of that tier
  safe,     \* those of them that pass the blunder filter
  result,   \* the coordinate returned, None if none
  prev,     \* what the previous invocation on this snapshot returned
  err,      \* the exception raised, "" if none
  scan,     \* [player, target_count, threats] of the last scan
  plies,    \* moves played since the starting snapshot
  call,     \* [fn, cell, player, ret] of the last call of a helper
  requests, \* model requests made in this decision
  feedback, \* feedback messages appended to the conversation in this decision
  reply     \* [kind, cell] of the model's last reply
vars == <<board, me, legal, pc, op, tier, moves, safe, result, prev, err, scan, plies, call,
          requests, feedback, reply>>

\* for attempt in range(3)
Attempts == 3

\* the replies of the model: a coordinate pair, text that is no JSON object
\* with row and col, or a value that makes the code raise something else
ReplyCells == {<<3, 3>>, <<3, 1>>, <<8, 8>>}

Replies ==
  {[kind |-> "move", cell |-> c] : c \in ReplyCells}
  \cup {[kind |-> "malformed", cell |-> None], [kind |-> "raise", cell |-> None]}

NoReply == [kind |-> "", cell |-> None]

NoScan == [player |-> "", target_count |-> 0, threats |-> {}]

NoCall == [fn |-> "", cell |-> None, player |-> "", ret |-> 0]

Init ==
  /\ board \in StartBoards \cup {FullBoard}
  /\ me = "X"
  /\ legal \in LegalLists(board)
  /\ pc = "ready"
  /\ op = ""
  /\ tier = 0
  /\ moves = {}
  /\ safe = {}
  /\ result = None
  /\ prev = None
  /\ err = ""
  /\ scan = NoScan
  /\ plies = 0
  /\ call = NoCall
  /\ requests = 0
  /\ feedback = 0
  /\ reply = NoReply

\* record what a cascade did
Took(g) ==
  /\ tier' = g.tier
  /\ moves' = g.moves
  /\ safe' = g.safe
  /\ err' = g.err
  /\ IF g.ret = {} THEN result' = None ELSE \E m \in g.ret : result' = m

\* agent 6, _get_strategic_move on the snapshot; it may be invoked a second
\* time on the same snapshot
Select6 ==
  /\ \/ pc = "ready" /\ prev' = None
     \/ pc = "strategic" /\ op = "strategic6" /\ prev = None /\ result # None
        /\ prev' = result
  /\ Took(GetStrategicMove(board, me, Other(me), legal))
  /\ board' = GetStrategicMoveBoard(board, me, Other(me), legal)
  /\ op' = "strategic6"
  /\ pc' = "strategic"
  /\ UNCHANGED <<reply, requests, feedback, call, me, legal, scan, plies>>

\* agent 6, get_move from the return of _get_strategic_move on: the move if
\* there is one and it is legal; the exception handler and the centre-most
\* fallback after a raise; the model request when the cascade gave no move
GetMove6 ==
  /\ pc = "strategic" /\ op = "strategic6"
  /\ IF err = "" /\ result # None /\ result \in SeqToSet(legal)
     THEN UNCHANGED <<call, result, err, requests>>
     ELSE IF err = ""
     THEN \* LLM as backup: a reply naming a legal move is returned, anything
          \* else falls through to the fallback
          /\ requests' = requests + 1
          /\ \E rep \in Cells \cup {None} :
            LET safe_f == {m \in SeqToSet(legal) :
                             ~MoveGivesOppImmediateWin(board, m, me, Other(me))}
                pool == IF safe_f # {} THEN safe_f ELSE SeqToSet(legal)
            IN  IF rep \in SeqToSet(legal)
                THEN result' = rep /\ err' = ""
                ELSE IF pool = {}
                THEN result' = None /\ err' = "ValueError"
                ELSE /\ result' \in {m \in pool : \A q \in pool :
                                        /\ CenterDist(m) <= CenterDist(q)
                                        /\ (CenterDist(m) = CenterDist(q)
                                              => Pos(legal, m) <= Pos(legal, q))}
                     /\ err' = ""
     ELSE \* except Exception: print; then min(safe or legal, ...) again
          /\ UNCHANGED requests
          /\ LET safe_f == {m \in SeqToSet(legal) :
                              ~MoveGivesOppImmediateWin(board, m, me, Other(me))}
                 pool == IF safe_f # {} THEN safe_f ELSE SeqToSet(legal)
             IN  IF pool = {}
                 THEN result' = None /\ err' = "ValueError"
                 ELSE /\ result' \in {m \in pool : \A q \in pool :
                                         /\ CenterDist(m) <= CenterDist(q)
                                         /\ (CenterDist(m) = CenterDist(q)
                                               => Pos(legal, m) <= Pos(legal, q))}
                      /\ err' = ""
  /\ op' = "get_move6"
  /\ pc' = "returned"
  /\ UNCHANGED <<reply, feedback, call, board, me, legal, tier, moves, safe, prev, scan, plies>>

Select5 ==
  /\ pc = "ready"
  /\ Took(GetStrategicMove5(board, me, Other(me), legal))
  /\ op' = "strategic5"
  /\ pc' = "strategic"
  /\ UNCHANGED <<reply, requests, feedback, call, board, me, legal, prev, scan, plies>>

Select2 ==
  /\ pc = "ready"
  /\ Took(GetStrategicMove2(board, me, Other(me), legal))
  /\ op' = "strategic2"
  /\ pc' = "strategic"
  /\ UNCHANGED <<reply, requests, feedback, call, board, me, legal, prev, scan, plies>>

\* agent 7, get_move with an empty legal-move list: straight to
\* _fallback_centerish
GetMove7 ==
  /\ pc = "ready"
  /\ legal = << >>
  /\ result' = FallbackCenterish(legal)
  /\ err' = ""
  /\ op' = "get_move7"
  /\ pc' = "returned"
  /\ UNCHANGED <<reply, requests, feedback, call, board, me, legal, tier, moves, safe, prev, scan, plies>>

\* agent 6, _find_all_threats on the snapshot
Scan ==
  /\ pc = "ready"
  /\ \E player \in {"X", "O"} : \E target_count \in TargetCounts :
       scan' = [player |-> player, target_count |-> target_count,
                threats |-> FindAllThreats(board, player, target_count)]
  /\ op' = "scan"
  /\ pc' = "scanned"
  /\ UNCHANGED <<reply, requests, feedback, call, board, me, legal, tier, moves, safe, result, prev, err, plies>>

\* agent 6, one call of _five_in_row_if_place on a starting snapshot
FiveInRowIfPlaceCall ==
  /\ pc = "ready" /\ plies = 0
  /\ \E cell \in Cells : \E player \in {"X", "O"} :
       /\ call' = [fn |-> "five", cell |-> cell, player |-> player,
                   ret |-> FiveInRowIfPlace(board, cell[1], cell[2], player)]
       /\ board' = FiveInRowIfPlaceBoard(board, cell[1], cell[2], player)
  /\ op' = "call"
  /\ pc' = "called"
  /\ UNCHANGED <<reply, requests, feedback, me, legal, tier, moves, safe, result, prev, err, scan, plies>>

\* agent 6, one call of _move_gives_opp_immediate_win on a starting snapshot
MoveGivesOppImmediateWinCall ==
  /\ pc = "ready" /\ plies = 0
  /\ \E cell \in Cells :
       /\ call' = [fn |-> "blunder", cell |-> cell, player |-> me,
                   ret |-> MoveGivesOppImmediateWin(board, cell, me, Other(me))]
       /\ board' = MoveGivesOppImmediateWinBoard(board, cell, me, Other(me))
  /\ op' = "call"
  /\ pc' = "called"
  /\ UNCHANGED <<reply, requests, feedback, me, legal, tier, moves, safe, result, prev, err, scan, plies>>

\* agent 6, one call of _score_move on a starting snapshot
ScoreMoveCall ==
  /\ pc = "ready" /\ plies = 0
  /\ \E cell \in Cells :
       /\ call' = [fn |-> "score", cell |-> cell, player |-> me,
                   ret |-> ScoreMove(board, cell[1], cell[2], me)]
       /\ board' = ScoreMoveBoard(board, cell[1], cell[2], me)
  /\ op' = "call"
  /\ pc' = "called"
  /\ UNCHANGED <<reply, requests, feedback, me, legal, tier, moves, safe, result, prev, err, scan, plies>>

\* agent 1, _check_immediate_win for the mover or for the opponent
CheckImmediateWin1 ==
  /\ pc = "ready"
  /\ \E player \in {"X", "O"} :
       LET w == CheckImmediateWin(board, legal, player)
       IN  /\ result' = w.ret
           /\ board' = w.board
           /\ call' = [fn |-> "win1", cell |-> None, player |-> player, ret |-> 0]
  /\ op' = "win1"
  /\ pc' = "called"
  /\ UNCHANGED <<reply, requests, feedback, me, legal, tier, moves, safe, prev, err, scan, plies>>

\* agent 1, get_move up to its first await: the two safeguards, then the
\* first request of the retry loop
GetMove1 ==
  /\ pc = "ready" /\ plies = 0
  /\ LET winning_move == CheckImmediateWin(board, legal, me).ret
         opponent_winning_move == CheckImmediateWin(board, legal, Other(me)).ret
     IN  IF winning_move # None
         THEN result' = winning_move /\ pc' = "returned" /\ requests' = 0
         ELSE IF opponent_winning_move # None
         THEN result' = opponent_winning_move /\ pc' = "returned" /\ requests' = 0
         ELSE result' = None /\ pc' = "awaiting" /\ requests' = 1
  /\ op' = "get_move1"
  /\ UNCHANGED <<reply, feedback, call, board, me, legal, tier, moves, safe, prev, err,
                 scan, plies>>

\* agent 1, get_move from the model's reply on: the move if it is legal; a
\* feedback message and the next request, or the fallback after the third
\* attempt, if it is illegal or malformed; the fallback at once if anything
\* else is raised
Reply1 ==
  /\ pc = "awaiting" /\ op = "get_move1"
  /\ \E rep \in Replies :
       /\ reply' = rep
       /\ IF rep.kind = "move" /\ rep.cell \in SeqToSet(legal)
          THEN /\ result' = rep.cell /\ pc' = "returned"
               /\ UNCHANGED <<requests, feedback, err>>
          ELSE IF rep.kind # "raise" /\ requests < Attempts
          THEN /\ feedback' = feedback + 1 /\ requests' = requests + 1
               /\ UNCHANGED <<result, pc, err>>
          ELSE /\ feedback' = IF rep.kind = "raise" THEN feedback ELSE feedback + 1
               /\ result' = GetFallbackMove(legal).ret
               /\ err' = GetFallbackMove(legal).err
               /\ pc' = "returned"
               /\ UNCHANGED requests
  /\ op' = "get_move1"
  /\ UNCHANGED <<call, board, me, legal, tier, moves, safe, prev, scan, plies>>

\* the game applies the move agent 6 returned and hands the next snapshot to
\* the other player, unless the move made five in a row
Play ==
  /\ pc = "returned" /\ op = "get_move6"
  /\ result # None
  /\ plies < MaxPlies
  /\ board' = Place(board, result[1], result[2], me)
  /\ me' = Other(me)
  /\ legal' = LegalMoves(board')
  /\ pc' = IF \E d \in DirIdx : RunThrough(board', result[1], result[2], d, me) >= 5
           THEN "over" ELSE "ready"
  /\ op' = ""
  /\ tier' = 0
  /\ moves' = {}
  /\ safe' = {}
  /\ result' = None
  /\ prev' = None
  /\ err' = ""
  /\ scan' = NoScan
  /\ plies' = plies + 1
  /\ call' = NoCall
  /\ requests' = 0
  /\ feedback' = 0
  /\ reply' = NoReply

Next ==
  \/ Select6
  \/ GetMove6
  \/ Select5
  \/ Select2
  \/ GetMove7
  \/ Scan
  \/ FiveInRowIfPlaceCall
  \/ MoveGivesOppImmediateWinCall
  \/ ScoreMoveCall
  \/ CheckImmediateWin1
  \/ GetMove1
  \/ Reply1
  \/ Play

Spec == Init /\ [][Next]_vars

\* =================================================================== claims
\* Stated from the rules of the game, not from the selector's code: the five
\* cells of the length-5 window that starts k steps before cell p along
\* direction d
WindowAt(p, d, k) ==
  {<<p[1] + (j - k) * Dirs[d][1], p[2] + (j - k) * Dirs[d][2]>> : j \in 0 .. 4}

\* p is empty and a stone of player on p stands in five consecutive stones of
\* player on one line
Completes(b, p, player) ==
  /\ b[p[1]][p[2]] = "."
  /\ \E d \in DirIdx : \E k \in 0 .. 4 : \A j \in 0 .. 4 :
       LET r == p[1] + (j - k) * Dirs[d][1]
           c == p[2] + (j - k) * Dirs[d][2]
       IN  /\ InBoard(r, c)
           /\ j # k => b[r][c] = player

CompletingCells(b, player) == {p \in Cells : Completes(b, p, player)}

StrategicDone(o) == pc = "strategic" /\ op = o

\* C1: whenever the WinNow tier of agent 6 or of agent 5 returns a move, a
\* stone of the mover on that cell stands in a run of at least five of the
\* mover's stones.
C1_WinNowMakesFive ==
  (/\ StrategicDone("strategic6") \/ StrategicDone("strategic5")
   /\ tier = 1 /\ result # None)
  => Completes(board, result, me)

C1_Witness ==
  /\ StrategicDone("strategic6")
  /\ tier = 1 /\ result # None
  /\ Cardinality(moves) = 2
  /\ Completes(board, result, me)

\* C2: agent 6, when the mover has no winning legal move and the opponent
\* has a legal cell that completes a five, the move returned is one of the
\* opponent's completing cells.
C2_MustBlock ==
  (/\ StrategicDone("strategic6")
   /\ CompletingCells(board, me) \cap SeqToSet(legal) = {}
   /\ CompletingCells(board, Other(me)) \cap SeqToSet(legal) # {})
  => result \in CompletingCells(board, Other(me)) \cap SeqToSet(legal)

\* both blocking cells leave the other one open: the unfiltered candidates
\* are used and the move still blocks
C2_Witness ==
  /\ StrategicDone("strategic6")
  /\ CompletingCells(board, me) \cap SeqToSet(legal) = {}
  /\ Cardinality(CompletingCells(board, Other(me))) = 2
  /\ safe = {}
  /\ result \in CompletingCells(board, Other(me))

\* C3: agent 6, with a non-empty legal-move list _get_strategic_move returns
\* without an exception and its result is a member of the list.
C3_ReturnsLegalMove ==
  (StrategicDone("strategic6") /\ legal # << >>)
  => (err = "" /\ result \in SeqToSet(legal))

\* the terminal tier on a board past the opening
C3_Witness ==
  /\ StrategicDone("strategic6")
  /\ tier = 6
  /\ legal # << >>
  /\ result \in SeqToSet(legal)

\* C4: with an empty legal-move list agent 6 (_get_strategic_move, get_move)
\* and agent 7 (get_move) report a NoLegalMoves condition of their own: no
\* defaulted coordinate, no other error.
C4_NoLegalMovesReported ==
  (/\ legal = << >>
   /\ op \in {"strategic6", "get_move6", "get_move7"})
  => (result = None /\ err = "NoLegalMoves")

\* the blunder filter, stated from the rules: after the mover's stone on m
\* the opponent has an empty cell that completes a five
Blunder(b, m, mover) ==
  LET placed == Place(b, m[1], m[2], mover)
  IN  \E p \in Cells : Completes(placed, p, Other(mover))

\* C5: agent 6, a move returned from tiers 2 to 6 leaves the opponent no
\* completing cell, unless the safe set of the tier that produced it was
\* empty.
C5_FilterSound ==
  (/\ StrategicDone("strategic6")
   /\ tier \in 2 .. 6 /\ result # None
   /\ safe # {})
  => ~Blunder(board, result, me)

\* a forced block that is safe
C5_Witness ==
  /\ StrategicDone("strategic6")
  /\ tier = 2 /\ safe # {}
  /\ result \in safe
  /\ ~Blunder(board, result, me)

\* the threat set an agent's own scanner gives
ThreatOf(o, b, player, target_count) ==
  IF o = "strategic6" THEN FindAllThreats(b, player, target_count)
  ELSE IF o = "strategic5" THEN FindAllThreats5(b, player, target_count)
  ELSE FindAllThreats2(b, player, target_count)

\* C6: in agent 6, agent 5 and agent 2 the tiers come in the order win-now,
\* must-block, block-opponent-three, build-own-three: on a board without a
\* four-threat where Threat(opponent, 3) and Threat(self, 3) both hold legal
\* cells, the move returned belongs to Threat(opponent, 3).
C6_BlockThreeBeforeBuildThree ==
  (/\ pc = "strategic" /\ op \in {"strategic6", "strategic5", "strategic2"}
   /\ ThreatOf(op, board, me, 4) \cap SeqToSet(legal) = {}
   /\ ThreatOf(op, board, Other(me), 4) \cap SeqToSet(legal) = {}
   /\ CompletingCells(board, me) \cap SeqToSet(legal) = {}
   /\ ThreatOf(op, board, Other(me), 3) \cap SeqToSet(legal) # {}
   /\ ThreatOf(op, board, me, 3) \cap SeqToSet(legal) # {})
  => result \in ThreatOf(op, board, Other(me), 3)

ForcedBlockBoard == BoardOf({}, {<<2, 2>>, <<2, 3>>, <<2, 4>>, <<2, 5>>})

\* C8: on the forced-block board with X to move the selector returns (2,1).
C8_ForcedBlockLowestColumn ==
  (StrategicDone("strategic6") /\ board = ForcedBlockBoard /\ me = "X")
  => result = <<2, 1>>

\* X on (3,1) .. (3,4), every other cell empty
ImmediateWinBoard == BoardOf({<<3, 1>>, <<3, 2>>, <<3, 3>>, <<3, 4>>}, {})

\* C9: on the immediate-win board with X to move the selector returns (3,5),
\* the winning cell closer to the centre.
C9_ImmediateWin ==
  (StrategicDone("strategic6") /\ board = ImmediateWinBoard /\ me = "X")
  => (tier = 1 /\ result = <<3, 5>>)

C9_Witness ==
  /\ StrategicDone("strategic6") /\ board = ImmediateWinBoard /\ me = "X"
  /\ moves = {<<3, 0>>, <<3, 5>>}
  /\ ScoreMove(board, 3, 0, "X") = ScoreMove(board, 3, 5, "X")
  /\ CenterDist(<<3, 5>>) < CenterDist(<<3, 0>>)
  /\ result = <<3, 5>>

\* the window of five cells from p along direction d lies on the board and
\* reads empty, P, P, P, empty
OpenThreeAt(b, p, d, player) ==
  /\ \A q \in WindowAt(p, d, 0) : InBoard(q[1], q[2])
  /\ \A j \in 0 .. 4 :
       b[p[1] + j * Dirs[d][1]][p[2] + j * Dirs[d][2]]
         = (IF j \in {0, 4} THEN "." ELSE player)

\* C10: for each direction and each on-board window reading empty, P, P, P,
\* empty, _find_all_threats(board, P, 3) holds both end cells of the window.
C10_OpenThreeBothEnds ==
  (pc = "scanned" /\ scan.target_count = 3)
  => \A d \in DirIdx : \A p \in Cells :
       OpenThreeAt(board, p, d, scan.player)
       => /\ p \in scan.threats
          /\ <<p[1] + 4 * Dirs[d][1], p[2] + 4 * Dirs[d][2]>> \in scan.threats

\* an open three on the anti-diagonal, scanned
C10_Witness ==
  /\ pc = "scanned" /\ scan.target_count = 3
  /\ \E p \in Cells :
       /\ OpenThreeAt(board, p, 4, scan.player)
       /\ p \in scan.threats
       /\ <<p[1] + 4, p[2] - 4>> \in scan.threats

\* C11: for each on-board window reading empty, P, P, P, empty, a stone of P
\* on an end cell that _find_all_threats(board, P, 3) emits does not stand in
\* a run of five or more stones of P, whatever else is on the line.
C11_OpenThreeEndNoFive ==
  (pc = "scanned" /\ scan.target_count = 3)
  => \A d \in DirIdx : \A p \in Cells :
       OpenThreeAt(board, p, d, scan.player)
       => \A e \in {p, <<p[1] + 4 * Dirs[d][1], p[2] + 4 * Dirs[d][2]>>}
                  \cap scan.threats :
            ~Completes(board, e, scan.player)

\* C12: the calls that try a stone on the board leave every cell as it was:
\* _five_in_row_if_place, _move_gives_opp_immediate_win, _score_move and the
\* whole of _get_strategic_move with its calls of _pick_best (agent 6), and
\* _check_immediate_win of agent 1 on a legal-move list of empty cells.
C12_BoardUnchanged ==
  [][(\/ op' = "strategic6" /\ pc' = "strategic"
      \/ op' \in {"call", "win1"})
     => board' = board]_vars

\* the blunder test found a winning reply and returned from inside the loops;
\* the cell it tried is empty again
C12_Witness ==
  /\ pc = "called" /\ call.fn = "blunder"
  /\ call.ret = TRUE
  /\ Blunder(board, call.cell, call.player)
  /\ board[call.cell[1]][call.cell[2]] = "."

\* the legal candidates of the filtered tiers of agent 6, from its scanner
TierCandidates(k, b, mover) ==
  (IF k = 2 THEN FindAllThreats(b, Other(mover), 4)
   ELSE IF k = 3 THEN FindAllThreats(b, Other(mover), 3)
   ELSE FindAllThreats(b, mover, 3))
  \cap {p \in Cells : b[p[1]][p[2]] = "."}

\* m is best among S by score, then by distance to the centre
BestOf(m, S, b, mover) ==
  /\ m \in S
  /\ \A q \in S :
       \/ ScoreMove(b, m[1], m[2], mover) > ScoreMove(b, q[1], q[2], mover)
       \/ /\ ScoreMove(b, m[1], m[2], mover) = ScoreMove(b, q[1], q[2], mover)
          /\ CenterDist(m) <= CenterDist(q)

\* C13: agent 6, when the first of the filtered tiers (must-block,
\* block-three, build-three) that has a legal candidate has only unsafe
\* ones, the move returned is one of that tier's candidates, the best by
\* score and then by distance to the centre; no later tier is used.
C13_UnsafeTierStillUsed ==
  (StrategicDone("strategic6") /\ CompletingCells(board, me) = {})
  => LET c2 == TierCandidates(2, board, me)
         c3 == TierCandidates(3, board, me)
         c4 == TierCandidates(4, board, me)
         first == IF c2 # {} THEN c2 ELSE IF c3 # {} THEN c3 ELSE c4
     IN  (first # {} /\ \A m \in first : Blunder(board, m, me))
         => BestOf(result, first, board, me)

\* a four open at both ends next to stones of the mover: both blocks are
\* unsafe, they differ in score, and the better one is returned
C13_Witness ==
  /\ StrategicDone("strategic6")
  /\ CompletingCells(board, me) = {}
  /\ Cardinality(TierCandidates(2, board, me)) = 2
  /\ \A m \in TierCandidates(2, board, me) : Blunder(board, m, me)
  /\ \E m \in TierCandidates(2, board, me) : ~BestOf(m, TierCandidates(2, board, me), board, me)
  /\ tier = 2
  /\ BestOf(result, TierCandidates(2, board, me), board, me)

\* C14: agent 6, whenever the mover has a legal winning move the selector
\* returns a winning move, the best of all of them by score and then by
\* distance to the centre, whether or not the opponent could complete a five
\* after it: an unsafe winning move is not dropped for a safe one.
C14_WinNowUnfiltered ==
  (StrategicDone("strategic6") /\ CompletingCells(board, me) # {})
  => /\ tier = 1
     /\ BestOf(result, CompletingCells(board, me), board, me)

\* a safe and an unsafe winning move, and the unsafe one is returned
C14_Witness ==
  /\ StrategicDone("strategic6")
  /\ \E m \in CompletingCells(board, me) : ~Blunder(board, m, me)
  /\ Blunder(board, result, me)
  /\ BestOf(result, CompletingCells(board, me), board, me)

\* the empty cells of the on-board windows of five that hold exactly two
\* stones of player, three empty cells and no stone of the opponent
TwoWindowCells(b, player) ==
  {p \in Cells :
     /\ b[p[1]][p[2]] = "."
     /\ \E d \in DirIdx : \E k \in 0 .. 4 :
          /\ \A q \in WindowAt(p, d, k) : InBoard(q[1], q[2])
          /\ Cardinality({q \in WindowAt(p, d, k) : b[q[1]][q[2]] = player}) = 2
          /\ Cardinality({q \in WindowAt(p, d, k) : b[q[1]][q[2]] = "."}) = 3}

\* C15: in agent 5 and agent 2, _find_all_threats(board, me, 2) holds the
\* empty cells of every window of five with exactly two stones of the mover,
\* three empty cells and no stone of the opponent, so the build-two tier has
\* a candidate whenever the mover has such a window.
C15_BuildTwoEmits ==
  (pc = "strategic" /\ op \in {"strategic5", "strategic2"})
  => TwoWindowCells(board, me) \subseteq ThreatOf(op, board, me, 2)

\* C16: _find_all_threats(board, p, 4) is the set of the empty cells where a
\* stone of p stands in a run of five or more (the cells where
\* _five_in_row_if_place is true), and the candidates of agent 6's WinNow
\* tier are the legal cells of Threat(self, 4).
C16_FourScanExact ==
  /\ (pc = "scanned" /\ scan.target_count = 4)
     => /\ scan.threats = CompletingCells(board, scan.player)
        /\ scan.threats
             = {c \in Cells : FiveInRowIfPlace(board, c[1], c[2], scan.player)}
  /\ StrategicDone("strategic6")
     => (IF tier = 1 THEN moves ELSE {})
          = FindAllThreats(board, me, 4) \cap SeqToSet(legal)

\* a four with two completing cells, one of them in the last window of its
\* line
C16_Witness ==
  /\ pc = "scanned" /\ scan.target_count = 4
  /\ Cardinality(scan.threats) = 2
  /\ \E c \in scan.threats : c[1] = N - 1
  /\ scan.threats = CompletingCells(board, scan.player)

\* C17: _move_gives_opp_immediate_win(board, m, me, opp) on an empty cell m
\* is true exactly when, with the mover's stone on m, some empty cell
\* completes a run of five or more for the opponent.
C17_BlunderTestExact ==
  (/\ pc = "called" /\ call.fn = "blunder"
   /\ board[call.cell[1]][call.cell[2]] = ".")
  => (call.ret = TRUE <=> Blunder(board, call.cell, call.player))

\* the move takes the only completing cell of the opponent: not a blunder
C17_Witness ==
  /\ pc = "called" /\ call.fn = "blunder"
  /\ CompletingCells(board, Other(call.player)) = {call.cell}
  /\ call.ret = FALSE
  /\ ~Blunder(board, call.cell, call.player)

\* m is best among S by the score of the agent that ran, then by distance to
\* the centre
BestBy(o, m, S, b, mover) ==
  LET score(p) == IF o = "strategic5" THEN ScoreMove5(b, p[1], p[2], mover)
                  ELSE ScoreMove(b, p[1], p[2], mover)
  IN  /\ m \in S
      /\ \A q \in S : /\ score(m) >= score(q)
                      /\ score(m) = score(q) => CenterDist(m) <= CenterDist(q)

\* the candidates left to rank: the safe ones if there are any, else all
Surviving == IF safe # {} THEN safe ELSE moves

\* C18: agent 6 and agent 5, the move a tier returns has the greatest
\* _score_move value among the candidates that survive the tier and, among
\* those of greatest score, the least Manhattan distance to the centre.
C18_MaxScoreThenCentre ==
  (/\ pc = "strategic" /\ op \in {"strategic6", "strategic5"}
   /\ result # None)
  => BestBy(op, result, Surviving, board, me)

\* agent 5 ranks several candidates: some lose on the score, some tie on it
\* and lose on the distance
C18_Witness ==
  /\ StrategicDone("strategic5") /\ result # None
  /\ \E q \in moves : ScoreMove5(board, q[1], q[2], me)
                        < ScoreMove5(board, result[1], result[2], me)
  /\ \E q \in moves : /\ ScoreMove5(board, q[1], q[2], me)
                           = ScoreMove5(board, result[1], result[2], me)
                      /\ CenterDist(q) > CenterDist(result)
  /\ BestBy(op, result, Surviving, board, me)

\* stated from the rules: the length of the run of player's stones through
\* cell p along direction d once p holds a stone of player -- p itself and
\* every cell joined to p by player's stones only
RunLength(b, p, d, player) ==
  LET at(j) == <<p[1] + j * Dirs[d][1], p[2] + j * Dirs[d][2]>>
      mine(j) == InBoard(at(j)[1], at(j)[2]) /\ b[at(j)[1]][at(j)[2]] = player
  IN  1 + Cardinality({j \in 1 .. (N - 1) : \A i \in 1 .. j : mine(i)})
        + Cardinality({j \in 1 .. (N - 1) : \A i \in 1 .. j : mine(0 - i)})

\* C19: for an empty cell c, _score_move(board, c, me) is ten times the
\* longest run of the mover's stones through c over the four directions,
\* with the stone on c, plus the number of directions whose run is three or
\* longer.
C19_ScoreFormula ==
  (/\ pc = "called" /\ call.fn = "score"
   /\ board[call.cell[1]][call.cell[2]] = ".")
  => \E d \in DirIdx :
       /\ \A e \in DirIdx : RunLength(board, call.cell, e, call.player)
                              <= RunLength(board, call.cell, d, call.player)
       /\ call.ret = 10 * RunLength(board, call.cell, d, call.player)
                     + Cardinality({e \in DirIdx :
                          RunLength(board, call.cell, e, call.player) >= 3})

\* a cell between stones of the player on both sides: the run counts both
\* ways and gives five, one direction counted
C19_Witness ==
  /\ pc = "called" /\ call.fn = "score"
  /\ board[call.cell[1]][call.cell[2]] = "."
  /\ \E d \in DirIdx :
       /\ InBoard(call.cell[1] + Dirs[d][1], call.cell[2] + Dirs[d][2])
       /\ InBoard(call.cell[1] - Dirs[d][1], call.cell[2] - Dirs[d][2])
       /\ board[call.cell[1] + Dirs[d][1]][call.cell[2] + Dirs[d][2]] = call.player
       /\ board[call.cell[1] - Dirs[d][1]][call.cell[2] - Dirs[d][2]] = call.player
  /\ call.ret = 51

\* within Manhattan distance 3 of the centre (3.5, 3.5); distances doubled
InRing(p) == CenterDist(p) <= 6

\* tiers 1 to 4 of agent 6 have no candidate
NoTactic(b, mover) ==
  /\ CompletingCells(b, mover) = {}
  /\ \A k \in 2 .. 4 : TierCandidates(k, b, mover) = {}

\* C20: agent 6, when tiers 1 to 4 yield no move: with fewer than 10 stones
\* on the board and a legal move within distance 3 of the centre the move
\* returned lies within that distance; with 10 stones or more, or no legal
\* move within that distance, the move is the best of the whole legal-move
\* list (of its safe moves if there are any).
C20_CentreBias ==
  (StrategicDone("strategic6") /\ NoTactic(board, me) /\ legal # << >>)
  => IF MoveCount(board) < 10 /\ \E m \in SeqToSet(legal) : InRing(m)
     THEN result \in SeqToSet(legal) /\ InRing(result)
     ELSE LET safe_all == {m \in SeqToSet(legal) : ~Blunder(board, m, me)}
          IN  BestOf(result, IF safe_all # {} THEN safe_all ELSE SeqToSet(legal),
                     board, me)

\* an opening where a cell far from the centre scores higher than every
\* cell near it, and the move stays near the centre
C20_Witness ==
  /\ StrategicDone("strategic6") /\ NoTactic(board, me)
  /\ MoveCount(board) < 10
  /\ \E m \in SeqToSet(legal) :
       /\ ~InRing(m)
       /\ ScoreMove(board, m[1], m[2], me) > ScoreMove(board, result[1], result[2], me)
  /\ tier = 5
  /\ InRing(result)

\* past the opening the whole legal-move list is ranked: the move scores
\* higher than a legal cell closer to the centre
C20_WitnessLate ==
  /\ StrategicDone("strategic6") /\ NoTactic(board, me)
  /\ MoveCount(board) >= 10
  /\ tier = 6
  /\ \E m \in SeqToSet(legal) :
       /\ CenterDist(m) < CenterDist(result)
       /\ ScoreMove(board, m[1], m[2], me) < ScoreMove(board, result[1], result[2], me)

\* the window of five cells from p along direction d, as the scanner cuts it
WindowFrom(p, d) ==
  [j \in 1 .. 5 |-> <<p[1] + (j - 1) * Dirs[d][1], p[2] + (j - 1) * Dirs[d][2]>>]

\* the stones of player in the window stand in a row: neither the empty
\* cell nor the opponent's stone sits between two of them
Contiguous(pieces, player) ==
  \A i \in 1 .. 5 : \A k \in 1 .. 5 :
    (i < k /\ pieces[i] = player /\ pieces[k] = player)
    => \A j \in i .. k : pieces[j] = player

\* C21: every window of five with three stones of the player, one empty
\* cell and one stone of the opponent for which the scanner emits a cell is a
\* closed three: the three stones stand in a row, with the empty cell and
\* the opponent's stone outside them.
C21_ClosedThreeShape ==
  (pc = "scanned" /\ scan.target_count = 3)
  => \A d \in DirIdx : \A p \in Cells :
       LET last == WindowFrom(p, d)[5]
           pieces == Pieces(board, WindowFrom(p, d))
       IN  (/\ InBoard(last[1], last[2])
            /\ Count(pieces, scan.player) = 3
            /\ Count(pieces, ".") = 1
            /\ Count(pieces, Other(scan.player)) = 1
            /\ Window5Threats(board, WindowFrom(p, d), scan.player, 3) # {})
           => Contiguous(pieces, scan.player)


\* the return of the helper named in a call record, for a cell of the board
HelperReturn(fn, b, cell, player) ==
  IF fn = "five" THEN FiveInRowIfPlace(b, cell[1], cell[2], player)
  ELSE IF fn = "blunder" THEN MoveGivesOppImmediateWin(b, cell, player, Other(player))
  ELSE ScoreMove(b, cell[1], cell[2], player)

\* C22: a helper called on an occupied cell answers with an outcome that no
\* call on an empty cell of the same board gives, and leaves the board as it
\* was (the cell still holds its stone after the call).
C22_OccupiedIsAnError ==
  (pc = "called" /\ op = "call" /\ board[call.cell[1]][call.cell[2]] # ".")
  => \A c \in Cells :
       board[c[1]][c[2]] = "."
       => HelperReturn(call.fn, board, c, call.player) # call.ret


\* C23: when agent 6's cascade gets past the must-block tier on a snapshot
\* whose legal moves are its empty cells, no legal move hands the opponent a
\* five, so the safety filter removes no candidate of tiers 3 to 6.  (`safe`
\* holds the candidates the filter found safe, all legal moves at tier 6; the
\* test is made here for the legal moves the tier did not put to the filter.)
C23_FilterVacuousBelowBlock ==
  (pc = "strategic" /\ op = "strategic6" /\ tier \in 3 .. 6
     /\ SeqToSet(legal) = {c \in Cells : board[c[1]][c[2]] = "."})
  => /\ safe = moves
     /\ tier = 6 => moves = SeqToSet(legal)
     /\ prev = None => \A m \in SeqToSet(legal) \ moves :
          ~MoveGivesOppImmediateWin(board, m, me, Other(me))

\* the cascade stopped at the open-three tier with candidates, all kept
C23_Witness ==
  /\ pc = "strategic" /\ op = "strategic6" /\ tier = 3
  /\ moves # {} /\ safe = moves
  /\ SeqToSet(legal) = {c \in Cells : board[c[1]][c[2]] = "."}


\* C24: with at least one legal move agent 6's cascade returns a move and
\* raises nothing, and get_move returns a legal move without having made any
\* model request: the backup request is never reached.
C24_NoModelRequest ==
  legal # << >>
  => /\ (pc = "strategic" /\ op = "strategic6")
          => (result # None /\ err = "" /\ result \in SeqToSet(legal))
     /\ op = "get_move6"
          => (requests = 0 /\ err = "" /\ result \in SeqToSet(legal))

\* get_move has returned the move of the last tier, no request made
C24_Witness ==
  /\ op = "get_move6" /\ pc = "returned" /\ legal # << >>
  /\ tier = 6 /\ result \in SeqToSet(legal) /\ requests = 0


\* the cell before p against direction d
Back(p, d) == <<p[1] - Dirs[d][1], p[2] - Dirs[d][2]>>

\* the first cells of the lines of direction d: those with the edge behind
Heads(d) == {p \in Cells : ~InBoard(Back(p, d)[1], Back(p, d)[2])}

\* C25: every cell a scan returns, from one line (each line of the board,
\* scanned from its first cell) or from the whole board, is a cell of the
\* board that is empty on the scanned snapshot, and a scan for a target count
\* other than 3 or 4 returns nothing.
C25_ThreatsAreEmptyCells ==
  pc = "scanned"
  => LET found == scan.threats
                    \cup UNION {UNION {CheckLineForThreat(board, h[1], h[2],
                                                          Dirs[d][1], Dirs[d][2],
                                                          scan.player, scan.target_count) :
                                         h \in Heads(d)} : d \in DirIdx}
     IN  /\ \A t \in found : InBoard(t[1], t[2]) /\ board[t[1]][t[2]] = "."
         /\ scan.target_count \notin {3, 4} => found = {}

\* a scan for three that returned the end of a window of four
C25_Witness ==
  /\ pc = "scanned" /\ scan.target_count = 3
  /\ \E c \in Cells : \E d \in DirIdx :
       LET line == Line(c[1], c[2], Dirs[d][1], Dirs[d][2])
       IN  \E i \in 1 .. (Len(line) - 3) :
             Window4Threats(board, Window(line, i, 4), scan.player) # {}
  /\ scan.threats # {}


\* C26: the line cut through an origin contains the origin, runs from edge to
\* edge and has 1 to 8 cells; a scan from any origin returns what the scan
\* from the first cell of its line returns, and the scan of the whole board
\* is the union of the scans of the distinct lines.
C26_AnchorIndependent ==
  pc = "scanned"
  => /\ \A p \in Cells : \A d \in DirIdx :
          LET line == Line(p[1], p[2], Dirs[d][1], Dirs[d][2])
              last == line[Len(line)]
          IN  /\ Len(line) \in 1 .. 8
              /\ \E j \in 1 .. Len(line) : line[j] = p
              /\ line[1] \in Heads(d)
              /\ ~InBoard(last[1] + Dirs[d][1], last[2] + Dirs[d][2])
              /\ \A j \in 1 .. (Len(line) - 1) :
                   line[j + 1] = <<line[j][1] + Dirs[d][1], line[j][2] + Dirs[d][2]>>
     /\ \A d \in DirIdx : \A h \in Heads(d) :
          LET line == Line(h[1], h[2], Dirs[d][1], Dirs[d][2])
              first == CheckLineForThreat(board, h[1], h[2], Dirs[d][1], Dirs[d][2],
                                          scan.player, scan.target_count)
          IN  /\ \A j \in 2 .. Len(line) :
                   CheckLineForThreat(board, line[j][1], line[j][2], Dirs[d][1], Dirs[d][2],
                                      scan.player, scan.target_count) = first
              /\ first \subseteq scan.threats
     /\ \A t \in scan.threats : \E d \in DirIdx : \E h \in Heads(d) :
          t \in CheckLineForThreat(board, h[1], h[2], Dirs[d][1], Dirs[d][2],
                                   scan.player, scan.target_count)

\* a scan that found a threat on a line whose first cell was not the cell
\* that reported it
C26_Witness ==
  /\ pc = "scanned" /\ scan.threats # {}
  /\ \E p \in Cells : \E d \in DirIdx :
       /\ p \notin Heads(d)
       /\ CheckLineForThreat(board, p[1], p[2], Dirs[d][1], Dirs[d][2],
                             scan.player, scan.target_count) # {}


Pool == IF safe # {} THEN safe ELSE moves

\* the moves of the pool that tie with m on score and on centre distance
Tied(m) ==
  {q \in Pool : /\ ScoreMove(board, q[1], q[2], me) = ScoreMove(board, m[1], m[2], me)
                /\ CenterDist(q) = CenterDist(m)}

\* C28: in tiers 5 and 6 of agent 6 the move returned is, among the moves of
\* the pool that tie with it on score and centre distance, the one that comes
\* first in the legal-move list, and a second invocation on the same
\* snapshot and list returns the same move.
C28_TieGoesToEarliestLegal ==
  (pc = "strategic" /\ op = "strategic6" /\ tier \in {5, 6} /\ err = "")
  => /\ result \in Pool
     /\ \A q \in Tied(result) : Pos(legal, result) <= Pos(legal, q)
     /\ prev # None => prev = result

\* a tie of several moves on a list that is not row by row: the move returned
\* is not the tied move that comes first row by row
C28_Witness ==
  /\ pc = "strategic" /\ op = "strategic6" /\ tier \in {5, 6} /\ err = ""
  /\ legal # LegalMoves(board)
  /\ Cardinality(Tied(result)) > 1
  /\ \E q \in Tied(result) : Pos(LegalMoves(board), q) < Pos(LegalMoves(board), result)
  /\ \A q \in Tied(result) : Pos(legal, result) <= Pos(legal, q)


\* the last reply named a legal move
LegalReply == reply.kind = "move" /\ reply.cell \in SeqToSet(legal)

\* C29: in agent 1's get_move, once neither safeguard has fired, no more than
\* three requests are made; while a request is open every reply so far has
\* failed and has added exactly one feedback message; a reply that names a
\* legal move is returned at once; after three failed replies, or when
\* something else is raised, the most central legal move is returned; and
\* with a legal move at hand whatever is returned is a legal move.
C29_RetryLoop ==
  op = "get_move1"
  => /\ requests <= Attempts
     /\ pc = "awaiting" => (requests >= 1 /\ feedback = requests - 1 /\ result = None)
     /\ (pc = "returned" /\ requests >= 1)
          => /\ LegalReply => (result = reply.cell /\ feedback = requests - 1)
             /\ (~LegalReply /\ reply.kind # "raise")
                  => (requests = Attempts /\ feedback = Attempts)
             /\ reply.kind = "raise" => feedback = requests - 1
             /\ (~LegalReply /\ legal # << >>)
                  => /\ err = ""
                     /\ \A q \in SeqToSet(legal) : CenterDist(result) <= CenterDist(q)
     /\ (pc = "returned" /\ legal # << >>) => result \in SeqToSet(legal)

\* three replies have failed and the fallback has answered
C29_Witness ==
  /\ op = "get_move1" /\ pc = "returned"
  /\ requests = Attempts /\ feedback = Attempts /\ ~LegalReply
  /\ result \in SeqToSet(legal)

\* the second reply named a legal move and was returned
C29_WitnessRetry ==
  /\ op = "get_move1" /\ pc = "returned"
  /\ requests = 2 /\ feedback = 1 /\ LegalReply /\ result = reply.cell

====
